---- MODULE Spec2Model ----
(***************************************************************************)
(* Model of src/trading.py: a Streamlit script that is re-executed from    *)
(* top to bottom on every dashboard rerun, with the paper-trading account  *)
(* kept in st.session_state between reruns.                                *)
(*                                                                         *)
(* Arithmetic.  The script computes money amounts in binary floating       *)
(* point.  The model computes the same expressions over exact rationals    *)
(* (records [n, d], normalised), i.e. it idealises away rounding.  The     *)
(* price domain PRICES is chosen so that the one comparison in the trading *)
(* logic, price >= Buy_Price * 1.10, has the same outcome in float64 as    *)
(* in exact arithmetic for every pair of prices of the domain.             *)
(***************************************************************************)
EXTENDS Integers, Sequences, FiniteSets, TLC

VARIABLES
    balance,            \* st.session_state.balance
    allocated_capital,  \* st.session_state.allocated_capital (dict)
    open_positions,     \* st.session_state.open_positions (dict)
    trade_history,      \* st.session_state.trade_history (list)
    balance_history,    \* st.session_state.balance_history (list)
    tickers,            \* module-level list `tickers` of the current run
    data,               \* keys of the dict returned by fetch_live_data
    pc,                 \* position of the script run
    idx,                \* index of the running for-loop over tickers
    now,                \* timestamp of the latest hourly bar (df.index[-1])
    log,                \* history variable: one entry per position transition
    f_in,               \* arguments of one classify_signal call
    f_out,              \* what the call and the two estimators inside it gave
    f_pc,               \* "ready" before the call, "done" after it
    series,             \* df['Close'] of one instrument, oldest bar first
    ind,                \* what compute_indicators makes of `series`
    lim,                \* how far this behaviour is explored (never changes)
    bar                 \* the latest row each instrument was evaluated on
                        \* since the provider's last new bar

acctVars == <<balance, allocated_capital, open_positions, trade_history,
              balance_history>>
fcVars   == <<f_in, f_out, f_pc>>
indVars  == <<series, ind>>
vars     == <<balance, allocated_capital, open_positions, trade_history,
              balance_history, tickers, data, pc, idx, now, log,
              f_in, f_out, f_pc, series, ind, lim, bar>>

-----------------------------------------------------------------------------
(* Bounds of the exploration *)

\* number of script runs (dashboard reruns) explored; every run finds a new
\* latest hourly bar
MaxRuns == 2
\* number of position transitions (opens + closes) explored
MaxEvents == 3
\* the provider has bars for the first MaxServed symbols of each list only
MaxServed == 2

Limits == [runs |-> MaxRuns, events |-> MaxEvents, served |-> MaxServed]

\* a longer exploration of the account: three runs, five transitions, three
\* symbols served per list
LongRuns == 3
LongEvents == 5
LongServed == 3

LongLimits == [runs |-> LongRuns, events |-> LongEvents, served |-> LongServed]

\* the exploration with reruns inside an hour: two new bars, three
\* transitions, one symbol served per list
SameBarRuns == 2
SameBarEvents == 3
SameBarServed == 1

SameBarLimits ==
    [runs |-> SameBarRuns, events |-> SameBarEvents, served |-> SameBarServed]

-----------------------------------------------------------------------------
(* Program constants *)

CRYPTO_SYMBOLS == <<"BTC-USD", "ETH-USD", "DOT-USD", "LTC-USD">>
INDICES_SYMBOLS == <<"^GSPC", "^GDAXI", "^HSI", "000300.SS">>
SECTIONS == {"Indices", "Cryptocurrency"}
INITIAL_BALANCE == 10000

\* closes of the latest bar offered by the provider, and the three signals
PRICES == {40, 44}
SIGNALS == {-1, 0, 1}

-----------------------------------------------------------------------------
(* Exact rational arithmetic standing for Python's float operators *)

Abs(x) == IF x < 0 THEN -x ELSE x

RECURSIVE GCD(_, _)
GCD(a, b) == IF b = 0 THEN a ELSE GCD(b, a % b)

Norm(n, d) ==
    LET g == GCD(Abs(n), d)
    IN  [n |-> n \div g, d |-> d \div g]

R(k) == [n |-> k, d |-> 1]

RAdd(x, y) ==
    LET l == (x.d * y.d) \div GCD(x.d, y.d)
    IN  Norm(x.n * (l \div x.d) + y.n * (l \div y.d), l)

RNeg(x) == [n |-> -x.n, d |-> x.d]

RSub(x, y) == RAdd(x, RNeg(y))

RMul(x, y) ==
    LET a == Norm(x.n, y.d)
        b == Norm(y.n, x.d)
    IN  [n |-> a.n * b.n, d |-> a.d * b.d]

\* x / y for y > 0
RDiv(x, y) == RMul(x, [n |-> y.d, d |-> y.n])

RGeq(x, y) == x.n * y.d >= y.n * x.d

\* the literal 1.10 of the take-profit test
TAKE_PROFIT == Norm(110, 100)

-----------------------------------------------------------------------------
(* Values *)

\* the stage (forecast, indicators) is not running
NoCall == [off |-> TRUE]

\* Python's None in open_positions
NoPos == [None |-> TRUE]

\* the latest row of a non-empty indicator frame: row['Close'], row['Signal']
Rows == [Close : PRICES, Signal : SIGNALS]

Range(s) == {s[i] : i \in 1..Len(s)}

SymbolsOf(sec) == IF sec = "Indices" THEN INDICES_SYMBOLS ELSE CRYPTO_SYMBOLS

\* compute_indicators left no row of the frame
EmptyFrame == [empty |-> TRUE]

\* The rows of the provider's latest bars are kept in `bar` where a script
\* run can come before the next bar (bar is a dict then); where every run
\* finds a new bar nothing is kept (bar = NoCall): no run would read it.
Tracking == bar # NoCall

\* the data of a ticker are the same until the provider has a new bar
BarAllows(t, row) == (Tracking /\ t \in DOMAIN bar) => bar[t] = row

BarAfter(t, row) ==
    IF Tracking
    THEN [x \in DOMAIN bar \cup {t} |-> IF x = t THEN row ELSE bar[x]]
    ELSE bar

\* a new bar for every instrument
BarReset == IF Tracking THEN << >> ELSE bar

-----------------------------------------------------------------------------
(* Session setup: lines 22-33 *)

Init ==
    /\ balance = R(INITIAL_BALANCE)
    /\ allocated_capital = << >>
    /\ open_positions = << >>
    /\ trade_history = << >>
    /\ balance_history = << >>
    /\ tickers = << >>
    /\ data = {}
    /\ pc = "idle"
    /\ idx = 0
    /\ now = 0
    /\ log = << >>
    /\ f_in = NoCall
    /\ f_out = NoCall
    /\ f_pc = "off"
    /\ series = << >>
    /\ ind = NoCall
    /\ lim = Limits
    /\ bar = NoCall

-----------------------------------------------------------------------------
(* Top of a script run: lines 46-77 *)

\* lines 70-77: capital_per_ticker from the balance of this moment, given to
\* the tickers that have no entry yet
Allocate(alloc, tks, bal) ==
    LET capital_per_ticker == RDiv(bal, R(Len(tks)))
        new == {t \in Range(tks) : t \notin DOMAIN alloc}
    IN  [t \in new |-> capital_per_ticker] @@ alloc

InitPositions(pos, tks) ==
    LET new == {t \in Range(tks) : t \notin DOMAIN pos}
    IN  [t \in new |-> NoPos] @@ pos

Rerun(sec) ==
    /\ pc = "idle"
    /\ now < lim.runs
    /\ tickers' = SymbolsOf(sec)
    /\ allocated_capital' = Allocate(allocated_capital, SymbolsOf(sec), balance)
    /\ open_positions' = InitPositions(open_positions, SymbolsOf(sec))
    /\ data' = {}
    /\ now' = now + 1
    /\ pc' = "fetch"
    /\ idx' = 1
    /\ UNCHANGED <<balance, trade_history, balance_history, log>>
    /\ UNCHANGED <<fcVars, indVars, lim>>
    /\ bar' = BarReset

-----------------------------------------------------------------------------
(* fetch_live_data: lines 79-117 *)

\* line 83-85: no API key, the empty dict is returned before the loop
FetchNoApiKey ==
    /\ pc = "fetch"
    /\ idx = 1
    /\ data' = {}
    /\ pc' = "fetched"
    /\ UNCHANGED <<tickers, idx, now, log>>
    /\ UNCHANGED acctVars
    /\ UNCHANGED <<fcVars, indVars, lim>>
    /\ UNCHANGED bar

\* outcomes of one iteration of the loop of lines 87-116
FetchOutcomes == {"ok", "no_data", "no_hourly", "error"}

\* FetchTicker with the try of line 88 around the loop: an exception ends it
FetchTicker_ErrorEndsLoop(outcome) ==
    /\ pc = "fetch"
    /\ idx <= Len(tickers)
    /\ outcome = "ok" => idx <= lim.served
    /\ data' = IF outcome = "ok" THEN data \cup {tickers[idx]} ELSE data
    /\ idx' = idx + 1
    /\ pc' = IF idx = Len(tickers) \/ outcome = "error" THEN "fetched" ELSE "fetch"
    /\ UNCHANGED <<tickers, now, log>>
    /\ UNCHANGED acctVars
    /\ UNCHANGED <<fcVars, indVars, lim>>
    /\ UNCHANGED bar

FetchTicker(outcome) ==
    /\ pc = "fetch"
    /\ idx <= Len(tickers)
    /\ outcome = "ok" => idx <= lim.served
    /\ data' = IF outcome = "ok" THEN data \cup {tickers[idx]} ELSE data
    /\ idx' = idx + 1
    /\ pc' = IF idx = Len(tickers) THEN "fetched" ELSE "fetch"
    /\ UNCHANGED <<tickers, now, log>>
    /\ UNCHANGED acctVars
    /\ UNCHANGED <<fcVars, indVars, lim>>
    /\ UNCHANGED bar

\* lines 222-225: st.stop() ends the run
StopNoData ==
    /\ pc = "fetched"
    /\ data = {}
    /\ pc' = "idle"
    /\ idx' = 0
    /\ tickers' = << >>
    /\ UNCHANGED <<data, now, log>>
    /\ UNCHANGED acctVars
    /\ UNCHANGED <<fcVars, indVars, lim>>
    /\ UNCHANGED bar

\* line 227
StartSimulate ==
    /\ pc = "fetched"
    /\ data # {}
    /\ pc' = "simulate"
    /\ idx' = 1
    /\ UNCHANGED <<tickers, data, now, log>>
    /\ UNCHANGED acctVars
    /\ UNCHANGED <<fcVars, indVars, lim>>
    /\ UNCHANGED bar

-----------------------------------------------------------------------------
(* simulate_trades_live: lines 177-220 *)

\* Decision without the `position is None` test of line 192
Decision_NoFlatTest(position, row) ==
    IF row.Signal = 1
    THEN "buy"
    ELSE IF position = NoPos
         THEN "none"
         ELSE IF \/ RGeq(R(row.Close), RMul(position.Buy_Price, TAKE_PROFIT))
                 \/ row.Signal = -1
              THEN "sell"
              ELSE "none"

\* Decision with > for the >= of line 206
Decision_StrictTakeProfit(position, row) ==
    IF position = NoPos
    THEN IF row.Signal = 1 THEN "buy" ELSE "none"
    ELSE IF \/ ~RGeq(RMul(position.Buy_Price, TAKE_PROFIT), R(row.Close))
            \/ row.Signal = -1
         THEN "sell"
         ELSE "none"

\* lines 192-193 and 205-206: what the latest row does to the position
Decision(position, row) ==
    IF position = NoPos
    THEN IF row.Signal = 1 THEN "buy" ELSE "none"
    ELSE IF \/ RGeq(R(row.Close), RMul(position.Buy_Price, TAKE_PROFIT))
            \/ row.Signal = -1
         THEN "sell"
         ELSE "none"

\* Quantity with the operands of line 194 swapped
Quantity_Swapped(allocated, price) == RDiv(price, allocated)

\* line 194
Quantity(allocated, price) == RDiv(allocated, price)

\* lines 195-200
NewPosition(allocated, row, current_time) ==
    [Buy_Time |-> current_time,
     Buy_Price |-> R(row.Close),
     Quantity |-> Quantity(allocated, R(row.Close))]

\* line 202
BalanceAfterBuy(bal, allocated) == RSub(bal, allocated)

\* Profit without the quantity factor of line 208
Profit_PerUnit(sell_price, position) == RSub(sell_price, position.Buy_Price)

\* line 208
Profit(sell_price, position) ==
    RMul(RSub(sell_price, position.Buy_Price), position.Quantity)

\* BalanceAfterSell crediting the profit alone
BalanceAfterSell_ProfitOnly(bal, allocated, profit) == RAdd(bal, profit)

\* line 209
BalanceAfterSell(bal, allocated, profit) == RAdd(bal, RAdd(allocated, profit))

\* lines 211-218
Trade(ticker, position, current_time, sell_price, profit) ==
    [Ticker |-> ticker,
     Buy_Time |-> position.Buy_Time,
     Buy_Price |-> position.Buy_Price,
     Sell_Time |-> current_time,
     Sell_Price |-> sell_price,
     Profit_Loss |-> profit]

\* lines 203 and 210
Snapshot(current_time, bal) == [Time |-> current_time, Balance |-> bal]

\* line 179 false: the ticker has no entry in data
SimSkip ==
    /\ pc = "simulate"
    /\ idx <= Len(tickers)
    /\ tickers[idx] \notin data
    /\ idx' = idx + 1
    /\ UNCHANGED <<tickers, data, pc, now, log>>
    /\ UNCHANGED acctVars
    /\ UNCHANGED <<fcVars, indVars, lim>>
    /\ UNCHANGED bar

\* lines 180-182: compute_indicators leaves no row, continue
SimEmpty ==
    /\ pc = "simulate"
    /\ idx <= Len(tickers)
    /\ tickers[idx] \in data
    /\ BarAllows(tickers[idx], EmptyFrame)
    /\ idx' = idx + 1
    /\ UNCHANGED <<tickers, data, pc, now, log>>
    /\ UNCHANGED acctVars
    /\ UNCHANGED <<fcVars, indVars, lim>>
    /\ bar' = BarAfter(tickers[idx], EmptyFrame)

\* lines 180-204, row = df.iloc[-1] of a non-empty frame.  The bars the
\* provider returned do not depend on the account, so the latest row is an
\* input of the iteration that reads it.
SimBuy(row) ==
    /\ pc = "simulate"
    /\ idx <= Len(tickers)
    /\ tickers[idx] \in data
    /\ BarAllows(tickers[idx], row)
    /\ Len(log) < lim.events
    /\ LET ticker == tickers[idx]
           allocated == allocated_capital[ticker]
           position == open_positions[ticker]
           newpos == NewPosition(allocated, row, now)
           bal == BalanceAfterBuy(balance, allocated)
       IN  /\ Decision(position, row) = "buy"
           /\ open_positions' = [open_positions EXCEPT ![ticker] = newpos]
           /\ balance' = bal
           /\ balance_history' = Append(balance_history, Snapshot(now, bal))
           /\ log' = Append(log, [ticker |-> ticker, kind |-> "open",
                                  price |-> newpos.Buy_Price,
                                  qty |-> newpos.Quantity,
                                  before |-> balance, after |-> bal])
    /\ idx' = idx + 1
    /\ UNCHANGED <<allocated_capital, trade_history, tickers, data, pc, now>>
    /\ UNCHANGED <<fcVars, indVars, lim>>
    /\ bar' = BarAfter(tickers[idx], row)

\* lines 180-191 and 205-220
SimSell(row) ==
    /\ pc = "simulate"
    /\ idx <= Len(tickers)
    /\ tickers[idx] \in data
    /\ BarAllows(tickers[idx], row)
    /\ Len(log) < lim.events
    /\ LET ticker == tickers[idx]
           allocated == allocated_capital[ticker]
           position == open_positions[ticker]
           sell_price == R(row.Close)
           profit == Profit(sell_price, position)
           bal == BalanceAfterSell(balance, allocated, profit)
       IN  /\ Decision(position, row) = "sell"
           /\ balance' = bal
           /\ balance_history' = Append(balance_history, Snapshot(now, bal))
           /\ trade_history' = Append(trade_history,
                  Trade(ticker, position, now, sell_price, profit))
           /\ open_positions' = [open_positions EXCEPT ![ticker] = NoPos]
           /\ log' = Append(log, [ticker |-> ticker, kind |-> "close",
                                  price |-> sell_price,
                                  qty |-> position.Quantity,
                                  before |-> balance, after |-> bal])
    /\ idx' = idx + 1
    /\ UNCHANGED <<allocated_capital, tickers, data, pc, now>>
    /\ UNCHANGED <<fcVars, indVars, lim>>
    /\ bar' = BarAfter(tickers[idx], row)

\* lines 180-191, neither branch of lines 192-220 taken
SimHold(row) ==
    /\ pc = "simulate"
    /\ idx <= Len(tickers)
    /\ tickers[idx] \in data
    /\ BarAllows(tickers[idx], row)
    /\ Decision(open_positions[tickers[idx]], row) = "none"
    /\ idx' = idx + 1
    /\ UNCHANGED <<tickers, data, pc, now, log>>
    /\ UNCHANGED acctVars
    /\ UNCHANGED <<fcVars, indVars, lim>>
    /\ bar' = BarAfter(tickers[idx], row)

\* one iteration of the loop of line 178 on a ticker with a non-empty frame
SimTicker(row) == SimBuy(row) \/ SimSell(row) \/ SimHold(row)

\* the loop of line 178 is over; the rest of the run only reads the account
EndRun ==
    /\ pc = "simulate"
    /\ idx > Len(tickers)
    /\ pc' = "idle"
    /\ idx' = 0
    /\ tickers' = << >>
    /\ data' = {}
    /\ UNCHANGED <<now, log>>
    /\ UNCHANGED acctVars
    /\ UNCHANGED <<fcVars, indVars, lim>>
    /\ UNCHANGED bar

Next ==
    \/ \E sec \in SECTIONS : Rerun(sec)
    \/ FetchNoApiKey
    \/ \E o \in FetchOutcomes : FetchTicker(o)
    \/ StopNoData
    \/ StartSimulate
    \/ SimSkip
    \/ SimEmpty
    \/ \E row \in Rows : SimBuy(row)
    \/ \E row \in Rows : SimSell(row)
    \/ \E row \in Rows : SimHold(row)
    \/ EndRun

Spec == Init /\ [][Next]_vars

\* the same script explored to LongLimits
LongInit ==
    /\ balance = R(INITIAL_BALANCE)
    /\ allocated_capital = << >>
    /\ open_positions = << >>
    /\ trade_history = << >>
    /\ balance_history = << >>
    /\ tickers = << >>
    /\ data = {}
    /\ pc = "idle"
    /\ idx = 0
    /\ now = 0
    /\ log = << >>
    /\ f_in = NoCall
    /\ f_out = NoCall
    /\ f_pc = "off"
    /\ series = << >>
    /\ ind = NoCall
    /\ lim = LongLimits
    /\ bar = NoCall

SpecLong == LongInit /\ [][Next]_vars

\* A dashboard rerun before the provider has a new bar: the script runs from
\* the top (lines 46-77) and fetches the bars of the same hour again.
RerunSameBar(sec) ==
    /\ Tracking
    /\ pc = "idle"
    /\ now >= 1
    /\ tickers' = SymbolsOf(sec)
    /\ allocated_capital' = Allocate(allocated_capital, SymbolsOf(sec), balance)
    /\ open_positions' = InitPositions(open_positions, SymbolsOf(sec))
    /\ data' = {}
    /\ pc' = "fetch"
    /\ idx' = 1
    /\ UNCHANGED <<balance, trade_history, balance_history, log, now, bar>>
    /\ UNCHANGED <<fcVars, indVars, lim>>

\* the script with reruns inside an hour; the rows read are kept in `bar`
SameBarInit ==
    /\ balance = R(INITIAL_BALANCE)
    /\ allocated_capital = << >>
    /\ open_positions = << >>
    /\ trade_history = << >>
    /\ balance_history = << >>
    /\ tickers = << >>
    /\ data = {}
    /\ pc = "idle"
    /\ idx = 0
    /\ now = 0
    /\ log = << >>
    /\ f_in = NoCall
    /\ f_out = NoCall
    /\ f_pc = "off"
    /\ series = << >>
    /\ ind = NoCall
    /\ lim = SameBarLimits
    /\ bar = << >>

SameBarNext ==
    \/ \E sec \in SECTIONS : Rerun(sec)
    \/ \E sec \in SECTIONS : RerunSameBar(sec)
    \/ FetchNoApiKey
    \/ \E o \in FetchOutcomes : FetchTicker(o)
    \/ StopNoData
    \/ StartSimulate
    \/ SimSkip
    \/ SimEmpty
    \/ \E row \in Rows : SimBuy(row)
    \/ \E row \in Rows : SimSell(row)
    \/ \E row \in Rows : SimHold(row)
    \/ EndRun

SpecSameBar == SameBarInit /\ [][SameBarNext]_vars

-----------------------------------------------------------------------------
(* Forecasting: lines 302-529.  A frame is represented by what the code    *)
(* reads of it: its number of rows, its last close, the rows that dropna   *)
(* removes for the tree model, the standard deviation of its last 48       *)
(* closes, and Signal and RSI of its last row.  Prophet and XGBRegressor   *)
(* are libraries: what fit and predict give is an input (lib).             *)

\* largest number of rows of a frame handed to the estimators
MaxBars == 101

HORIZONS == {8, 16, 24}

\* an exception leaving a function
Raised(e) == [raised |-> e]
IsRaised(x) == "raised" \in DOMAIN x

\* the tuple of Nones returned by train_test_prophet
PyNone == [none |-> TRUE]

Min(a, b) == IF a < b THEN a ELSE b

\* max(0, x) of line 333
Max0(x) == IF RGeq(x, R(0)) THEN x ELSE R(0)

\* df['Close'].iloc[-1]: out of bounds on a frame without rows
LastClose(df) == IF df.len = 0 THEN Raised("IndexError") ELSE df.last_close

\* f"{x:.2f}": x in hundredths, correctly rounded, ties to even (the values
\* of the model are dyadic, so the float is the value itself)
Round2(x) ==
    LET q == (x.n * 100) \div x.d
        r == (x.n * 100) % x.d
    IN  IF 2 * r < x.d THEN q
        ELSE IF 2 * r > x.d THEN q + 1
        ELSE IF q % 2 = 0 THEN q ELSE q + 1

\* f"${x:.2f}" and f"{x:.2f}%"
Dollar(x) == <<"$", Round2(x)>>
Percent(x) == <<Round2(x), "%">>

\* the "" that Take Profit and Stop Loss start with
NoLevel == << >>

\* train_test_prophet, lines 306-339
train_test_prophet(df, lib) ==
    IF df.len < 24 + 24
    THEN PyNone
    ELSE IF lib.prophet.fit = "raise"
    THEN Raised("prophet")
    ELSE IF lib.prophet.common < 1
    THEN PyNone
    ELSE [yhat |-> lib.prophet.yhat,
          in_index |-> lib.prophet.in_index,
          yhat_last |-> lib.prophet.yhat_last,
          accuracy |-> Max0(RSub(R(100), lib.prophet.mape))]

\* multi_horizon_forecast_with_accuracy_prophet, lines 341-359
multi_horizon_forecast_with_accuracy_prophet(df, lib, horizons) ==
    IF df.len = 0
    THEN [preds |-> [h \in horizons |-> R(100)], acc |-> R(0)]
    ELSE LET res == train_test_prophet(df, lib)
         IN  IF IsRaised(res)
             THEN res
             ELSE IF res = PyNone
             THEN [preds |-> [h \in horizons |-> df.last_close], acc |-> R(0)]
             ELSE [preds |-> [h \in horizons |->
                                 IF h \in res.in_index
                                 THEN res.yhat[h]
                                 ELSE res.yhat_last],
                   acc |-> res.accuracy]

\* rows left by the two dropna of lines 397 and 414: the first max_lag rows
\* have no lags, nan_rows more lack a feature
UsableRows(df) == df.len - 6 - df.nan_rows

\* xgb_forecast, lines 400-465
xgb_forecast(df, lib, horizons) ==
    IF df.len < 100
    THEN LET last_close == LastClose(df)
         IN  IF IsRaised(last_close)
             THEN last_close
             ELSE [preds |-> [h \in horizons |-> last_close]]
    ELSE IF UsableRows(df) < 50
    THEN [preds |-> [h \in horizons |-> df.last_close]]
    ELSE IF lib.xgb.fit = "raise"
    THEN Raised("xgboost")
    ELSE [preds |-> [h \in horizons |-> lib.xgb.preds[h]]]

\* lines 476-477
Volatility(df) ==
    LET lookback == Min(df.len, 48)
    IN  IF lookback > 1 THEN df.std ELSE R(1)

\* RiskLevels with the Neutral band as wide as the directional ones
RiskLevels_NeutralTwoVol(signal, rsi, position_open, predicted_price, volatility) ==
    LET tp_factor == R(2)
        sl_factor == R(2)
        blank == [Buy |-> "", Sell |-> "", Close_position |-> "",
                  Take_Profit |-> NoLevel, Stop_Loss |-> NoLevel]
    IN  IF signal = 1
        THEN [blank EXCEPT
                !.Buy = IF rsi < 30 THEN "Strong" ELSE "Potential",
                !.Take_Profit = Dollar(RAdd(predicted_price, RMul(volatility, tp_factor))),
                !.Stop_Loss = Dollar(RSub(predicted_price, RMul(volatility, sl_factor)))]
        ELSE IF signal = -1
        THEN [blank EXCEPT
                !.Sell = IF rsi > 70 THEN "Strong" ELSE "Potential",
                !.Close_position = IF position_open THEN "Close Position" ELSE "",
                !.Take_Profit = Dollar(RSub(predicted_price, RMul(volatility, tp_factor))),
                !.Stop_Loss = Dollar(RAdd(predicted_price, RMul(volatility, sl_factor)))]
        ELSE IF position_open
        THEN [blank EXCEPT
                !.Close_position = "Consider Close",
                !.Take_Profit = Dollar(RAdd(predicted_price, RMul(volatility, tp_factor))),
                !.Stop_Loss = Dollar(RSub(predicted_price, RMul(volatility, sl_factor)))]
        ELSE blank

\* lines 484-527: the fields of signal_strength set from signal, RSI and the
\* position
RiskLevels(signal, rsi, position_open, predicted_price, volatility) ==
    LET tp_factor == R(2)
        sl_factor == R(2)
        blank == [Buy |-> "", Sell |-> "", Close_position |-> "",
                  Take_Profit |-> NoLevel, Stop_Loss |-> NoLevel]
    IN  IF signal = 1
        THEN [blank EXCEPT
                !.Buy = IF rsi < 30 THEN "Strong" ELSE "Potential",
                !.Take_Profit = Dollar(RAdd(predicted_price, RMul(volatility, tp_factor))),
                !.Stop_Loss = Dollar(RSub(predicted_price, RMul(volatility, sl_factor)))]
        ELSE IF signal = -1
        THEN [blank EXCEPT
                !.Sell = IF rsi > 70 THEN "Strong" ELSE "Potential",
                !.Close_position = IF position_open THEN "Close Position" ELSE "",
                !.Take_Profit = Dollar(RSub(predicted_price, RMul(volatility, tp_factor))),
                !.Stop_Loss = Dollar(RAdd(predicted_price, RMul(volatility, sl_factor)))]
        ELSE IF position_open
        THEN [blank EXCEPT
                !.Close_position = "Consider Close",
                !.Take_Profit = Dollar(RAdd(predicted_price, RMul(volatility, R(1)))),
                !.Stop_Loss = Dollar(RSub(predicted_price, RMul(volatility, R(1))))]
        ELSE blank

\* classify_signal, lines 467-529
classify_signal(df, position_open, lib) ==
    LET prophet == multi_horizon_forecast_with_accuracy_prophet(df, lib, HORIZONS)
        xgb == xgb_forecast(df, lib, HORIZONS)
    IN  IF IsRaised(prophet) THEN prophet
        ELSE IF IsRaised(xgb) THEN xgb
        ELSE LET p8 == RDiv(RAdd(prophet.preds[8], xgb.preds[8]), R(2))
                 p16 == RDiv(RAdd(prophet.preds[16], xgb.preds[16]), R(2))
                 p24 == RDiv(RAdd(prophet.preds[24], xgb.preds[24]), R(2))
                 risk == RiskLevels(df.Signal, df.RSI, position_open, p8,
                                    Volatility(df))
             IN  [Buy |-> risk.Buy,
                  Sell |-> risk.Sell,
                  Close_position |-> risk.Close_position,
                  Prediction_8h |-> Dollar(p8),
                  Prediction_16h |-> Dollar(p16),
                  Prediction_24h |-> Dollar(p24),
                  Model_Accuracy |-> Percent(prophet.acc),
                  Take_Profit |-> risk.Take_Profit,
                  Stop_Loss |-> risk.Stop_Loss]

(* Inputs of the forecast stage *)

\* what Prophet can do: fail in fit or predict, forecast no timestamp of the
\* test span, forecast every target hour, or leave target hours out
PROPHET_OUTCOMES ==
    LET yhat == (8 :> Norm(385, 4)) @@ (16 :> R(98)) @@ (24 :> R(104))
    IN  {[fit |-> "raise", common |-> 0, mape |-> R(0), yhat |-> yhat,
          in_index |-> {}, yhat_last |-> R(0)],
         [fit |-> "ok", common |-> 0, mape |-> R(0), yhat |-> yhat,
          in_index |-> {}, yhat_last |-> R(0)],
         [fit |-> "ok", common |-> 24, mape |-> R(4), yhat |-> yhat,
          in_index |-> HORIZONS, yhat_last |-> R(104)],
         [fit |-> "ok", common |-> 20, mape |-> R(120), yhat |-> yhat,
          in_index |-> {8}, yhat_last |-> R(103)]}

\* what XGBRegressor can do: fail in fit or predict, or predict
XGB_OUTCOMES ==
    {[fit |-> "raise", preds |-> [h \in HORIZONS |-> R(0)]],
     [fit |-> "ok",
      preds |-> (8 :> R(100)) @@ (16 :> R(101)) @@ (24 :> Norm(199, 2))]}

ForecastFrames ==
    {[len |-> n, last_close |-> R(100), nan_rows |-> k, std |-> s,
      Signal |-> g, RSI |-> r] :
        n \in 0..MaxBars, k \in {0, 50}, s \in {R(0), Norm(3, 2)},
        g \in SIGNALS, r \in {25, 50, 75}}

ForecastInputs ==
    {i \in [df : ForecastFrames, position_open : BOOLEAN,
            lib : [prophet : PROPHET_OUTCOMES, xgb : XGB_OUTCOMES]] :
        /\ i.df.nan_rows <= i.df.len - 6 \/ i.df.nan_rows = 0
        /\ i.df.len < 100 => i.df.nan_rows = 0}

ForecastInit ==
    /\ balance = R(INITIAL_BALANCE)
    /\ allocated_capital = << >>
    /\ open_positions = << >>
    /\ trade_history = << >>
    /\ balance_history = << >>
    /\ tickers = << >>
    /\ data = {}
    /\ pc = "idle"
    /\ idx = 0
    /\ now = 0
    /\ log = << >>
    /\ f_in \in ForecastInputs
    /\ f_out = NoCall
    /\ f_pc = "ready"
    /\ series = << >>
    /\ ind = NoCall
    /\ lim = Limits
    /\ bar = NoCall

\* one call of classify_signal; the results of the two estimators on the same
\* arguments are kept beside it
Classify ==
    /\ f_pc = "ready"
    /\ f_out' =
         [prophet |-> multi_horizon_forecast_with_accuracy_prophet(
                          f_in.df, f_in.lib, HORIZONS),
          xgb |-> xgb_forecast(f_in.df, f_in.lib, HORIZONS),
          cls |-> classify_signal(f_in.df, f_in.position_open, f_in.lib)]
    /\ f_pc' = "done"
    /\ UNCHANGED <<f_in, tickers, data, pc, idx, now, log>>
    /\ UNCHANGED acctVars
    /\ UNCHANGED <<indVars, lim, bar>>

ForecastNext == Classify

SpecForecast == ForecastInit /\ [][ForecastNext]_vars

-----------------------------------------------------------------------------
(* Indicator engine: lines 119-169 *)

\* bars of the close series explored
MaxSeries == 21
\* bars explored from the first price change on; the smoothed averages are
\* exact fractions over 14^k from there
MaxMoves == 2

\* period=14 of compute_RSI
RSI_PERIOD == 14
\* window=20 of MA_Long and of the Bollinger bands, the longest rolling window
LONG_WINDOW == 20

\* float64 values: a number, NaN, or an infinity (of either sign: the one
\* expression that meets an infinity, 100 - 100 / (1 + rs), gives 100.0 for
\* both)
Num(x) == [k |-> "num", v |-> x]
NaN == [k |-> "nan", v |-> R(0)]
Inf == [k |-> "inf", v |-> R(0)]

\* a / b on float64 Series: no exception, x/0 is an infinity, 0/0 is NaN
FDiv(a, b) ==
    IF a.k = "nan" \/ b.k = "nan" THEN NaN
    ELSE IF a.k = "inf" THEN (IF b.k = "inf" THEN NaN ELSE Inf)
    ELSE IF b.k = "inf" THEN Num(R(0))
    ELSE IF b.v.n = 0 THEN (IF a.v.n = 0 THEN NaN ELSE Inf)
    ELSE IF b.v.n > 0 THEN Num(RDiv(a.v, b.v))
    ELSE Num(RNeg(RDiv(a.v, RNeg(b.v))))

\* a + b and a - b with at most one infinite operand
FAdd(a, b) ==
    IF a.k = "nan" \/ b.k = "nan" THEN NaN
    ELSE IF a.k = "inf" \/ b.k = "inf" THEN Inf
    ELSE Num(RAdd(a.v, b.v))

FSub(a, b) ==
    IF a.k = "nan" \/ b.k = "nan" THEN NaN
    ELSE IF a.k = "inf" \/ b.k = "inf" THEN Inf
    ELSE Num(RSub(a.v, b.v))

\* series.diff(): NaN on the first bar
diff(s) ==
    [i \in 1..Len(s) |-> IF i = 1 THEN NaN ELSE Num(R(s[i] - s[i - 1]))]

\* delta.clip(lower=0)
gain(s) ==
    [i \in 1..Len(s) |->
        LET x == diff(s)[i]
        IN  IF x.k = "nan" THEN NaN ELSE Num(Max0(x.v))]

\* -delta.clip(upper=0)
loss(s) ==
    [i \in 1..Len(s) |->
        LET x == diff(s)[i]
        IN  IF x.k = "nan" THEN NaN ELSE Num(Max0(RNeg(x.v)))]

\* xs.ewm(com=com, adjust=False).mean(), bars 1..n: NaN until the first
\* number, which starts the average; then y = (1 - a) * y + a * x with
\* a = 1 / (1 + com)
RECURSIVE ewm_mean(_, _, _)
ewm_mean(xs, com, n) ==
    IF n = 0 THEN << >>
    ELSE LET ys == ewm_mean(xs, com, n - 1)
             x == xs[n]
             y == IF n = 1 THEN NaN ELSE ys[n - 1]
         IN  Append(ys,
                 IF x.k = "nan" THEN y
                 ELSE IF y.k = "nan" THEN x
                 ELSE Num(RAdd(RMul(Norm(com, com + 1), y.v),
                               RMul(Norm(1, com + 1), x.v))))

avg_gain(s, period) == ewm_mean(gain(s), period - 1, Len(s))

avg_loss(s, period) == ewm_mean(loss(s), period - 1, Len(s))

\* lines 119-127
compute_RSI(s, period) ==
    LET ag == avg_gain(s, period)
        al == avg_loss(s, period)
    IN  [i \in 1..Len(s) |->
            LET rs == FDiv(ag[i], al[i])
            IN  FSub(Num(R(100)), FDiv(Num(R(100)), FAdd(Num(R(1)), rs)))]

\* lines 161-169: the RSI column and the index left by dropna(), which drops
\* the bars before the longest rolling window is filled and every bar with a
\* NaN in the RSI column (MACD and the Fibonacci levels have no NaN)
compute_indicators(s) ==
    LET rsi == compute_RSI(s, RSI_PERIOD)
    IN  [RSI |-> rsi,
         index |-> {i \in 1..Len(s) : i >= LONG_WINDOW /\ rsi[i].k # "nan"}]

\* bars from the first close that differs from the first bar's
Moves(s) ==
    IF \A i \in 1..Len(s) : s[i] = s[1] THEN 0
    ELSE Len(s) + 1 - (CHOOSE i \in 1..Len(s) :
                          /\ s[i] # s[1]
                          /\ \A j \in 1..(i - 1) : s[j] = s[1])

IndicatorInit ==
    /\ balance = R(INITIAL_BALANCE)
    /\ allocated_capital = << >>
    /\ open_positions = << >>
    /\ trade_history = << >>
    /\ balance_history = << >>
    /\ tickers = << >>
    /\ data = {}
    /\ pc = "idle"
    /\ idx = 0
    /\ now = 0
    /\ log = << >>
    /\ f_in = NoCall
    /\ f_out = NoCall
    /\ f_pc = "off"
    /\ series \in {<<p>> : p \in PRICES}
    /\ ind = compute_indicators(series)
    /\ lim = Limits
    /\ bar = NoCall

\* the provider has one more hourly bar; the frame is computed again from the
\* whole series
NewBar(close) ==
    /\ Len(series) < MaxSeries
    /\ Moves(series) < MaxMoves
    /\ series' = Append(series, close)
    /\ ind' = compute_indicators(series')
    /\ UNCHANGED <<tickers, data, pc, idx, now, log>>
    /\ UNCHANGED acctVars
    /\ UNCHANGED <<fcVars, lim, bar>>

IndicatorNext == \E close \in PRICES : NewBar(close)

SpecIndicator == IndicatorInit /\ [][IndicatorNext]_vars

-----------------------------------------------------------------------------
(* Properties *)

\* the ticker of the running iteration
Cur == tickers[idx]

InSim == pc = "simulate" /\ idx <= Len(tickers)

\* the transitions of one ticker, in order
EventsOf(t) == SelectSeq(log, LAMBDA e : e.ticker = t)

\* C1: every instrument's transitions alternate open, close, open, ...
\* starting with an open (never two buys without a sell in between), and the
\* instrument holds a position exactly when its last transition is an open.
C1_OnePositionPerInstrument ==
    \A t \in DOMAIN open_positions :
        LET ev == EventsOf(t)
        IN  /\ \A i \in 1..Len(ev) :
                  ev[i].kind = IF i % 2 = 1 THEN "open" ELSE "close"
            /\ (open_positions[t] # NoPos) <=> (Len(ev) % 2 = 1)

\* an instrument bought in an earlier run has been evaluated again in this
\* run and still holds that one position
C1_Witness ==
    /\ pc = "simulate"
    /\ \E i \in 1..Len(tickers) :
          /\ i < idx
          /\ tickers[i] \in data
          /\ open_positions[tickers[i]] # NoPos
          /\ open_positions[tickers[i]].Buy_Time < now

\* C2: a step that takes an instrument from Open to Flat appends exactly one
\* Trade, whose profit_loss is (exit_price - entry_price) * quantity with the
\* entry price and quantity of the position and the latest close as exit
\* price; a step that closes nothing leaves the trade history alone.
C2_Step ==
    LET closed == {t \in DOMAIN open_positions :
                      open_positions[t] # NoPos /\ open_positions'[t] = NoPos}
    IN  IF closed = {}
        THEN trade_history' = trade_history
        ELSE /\ Cardinality(closed) = 1
             /\ Len(trade_history') = Len(trade_history) + 1
             /\ SubSeq(trade_history', 1, Len(trade_history)) = trade_history
             /\ \A t \in closed :
                   LET tr == trade_history'[Len(trade_history')]
                       pos == open_positions[t]
                   IN  /\ tr.Ticker = t
                       /\ tr.Buy_Price = pos.Buy_Price
                       /\ tr.Buy_Time = pos.Buy_Time
                       /\ \E row \in Rows :
                             /\ SimTicker(row)
                             /\ tr.Sell_Price = R(row.Close)
                       /\ tr.Profit_Loss =
                             RMul(RSub(tr.Sell_Price, pos.Buy_Price), pos.Quantity)

C2_TradePerClose == [][C2_Step]_vars

\* a position entered at 40 with 125/2 units was closed at 44: profit 250
C2_Witness ==
    \E i \in 1..Len(trade_history) :
        /\ trade_history[i].Buy_Price = R(40)
        /\ trade_history[i].Sell_Price = R(44)
        /\ trade_history[i].Profit_Loss = R(250)

\* C3: when an instrument's close directly follows its own open (no other
\* instrument's position changed in between), the balance after the close is
\* the balance before the open plus (P - entry_price) * quantity.
C3_RoundTripBalance ==
    \A j \in 2..Len(log) :
        (/\ log[j].kind = "close"
         /\ log[j - 1].kind = "open"
         /\ log[j - 1].ticker = log[j].ticker)
        => log[j].after =
              RAdd(log[j - 1].before,
                   RMul(RSub(log[j].price, log[j - 1].price), log[j - 1].qty))

\* a round trip with a loss and one with a gain
C3_Witness ==
    \E j \in 2..Len(log) :
        /\ log[j].kind = "close"
        /\ log[j - 1].kind = "open"
        /\ log[j - 1].ticker = log[j].ticker
        /\ log[j].price # log[j - 1].price
        /\ log[j].after # log[j - 1].before

\* C4: an iteration on a Flat instrument with a Bullish row opens a position
\* with entry_price = close and quantity = allocated_capital / entry_price,
\* debits allocated_capital and appends one balance snapshot; with any other
\* row it changes nothing of the account.
C4_Step ==
    (InSim /\ Cur \in data /\ open_positions[Cur] = NoPos) =>
    \A row \in Rows :
        SimTicker(row) =>
            IF row.Signal = 1
            THEN /\ open_positions' =
                      [open_positions EXCEPT ![Cur] =
                          [Buy_Time |-> now,
                           Buy_Price |-> R(row.Close),
                           Quantity |-> RDiv(allocated_capital[Cur], R(row.Close))]]
                 /\ balance' = RSub(balance, allocated_capital[Cur])
                 /\ balance_history' =
                      Append(balance_history, [Time |-> now, Balance |-> balance'])
                 /\ trade_history' = trade_history
                 /\ allocated_capital' = allocated_capital
            ELSE UNCHANGED acctVars

C4_FlatToOpen == [][C4_Step]_vars

\* allocated 2500, bought at 40: 125/2 units, balance debited by 2500
C4_Witness ==
    \E j \in 1..Len(log) :
        /\ log[j].kind = "open"
        /\ log[j].price = R(40)
        /\ log[j].qty = Norm(125, 2)
        /\ RSub(log[j].before, log[j].after) = R(2500)
        /\ Len(balance_history) >= j

\* C5: an iteration on an Open instrument closes it exactly when
\* close >= entry_price * 1.10 or the row is Bearish, crediting
\* allocated_capital + profit and appending one balance snapshot; otherwise
\* position and account stay as they are.
C5_Step ==
    (InSim /\ Cur \in data /\ open_positions[Cur] # NoPos) =>
    \A row \in Rows :
        SimTicker(row) =>
            LET pos == open_positions[Cur]
                trigger == \/ row.Close * 100 * pos.Buy_Price.d
                                 >= pos.Buy_Price.n * 110
                           \/ row.Signal = -1
                profit == RMul(RSub(R(row.Close), pos.Buy_Price), pos.Quantity)
            IN  IF trigger
                THEN /\ open_positions' = [open_positions EXCEPT ![Cur] = NoPos]
                     /\ balance' =
                          RAdd(balance, RAdd(allocated_capital[Cur], profit))
                     /\ balance_history' =
                          Append(balance_history,
                                 [Time |-> now, Balance |-> balance'])
                     /\ allocated_capital' = allocated_capital
                ELSE UNCHANGED acctVars

C5_OpenToFlat == [][C5_Step]_vars

\* a position closed by the take-profit trigger at exactly 1.10 times the
\* entry price, and one held through a later run
C5_Witness ==
    /\ \E j \in 1..Len(trade_history) :
          /\ trade_history[j].Buy_Price = R(40)
          /\ trade_history[j].Sell_Price = R(44)
    /\ \E t \in DOMAIN open_positions :
          /\ open_positions[t] # NoPos
          /\ open_positions[t].Buy_Time < now
          /\ pc = "idle"

\* C6: every instrument's allocated_capital is the initial balance divided by
\* the number of instruments of its list.
C6_AllocatedIsInitialShare ==
    \A t \in DOMAIN allocated_capital :
        allocated_capital[t] = RDiv(R(INITIAL_BALANCE), R(Len(INDICES_SYMBOLS)))

\* C7: failures stay with their instrument.  A fetch iteration never ends the
\* fetch loop early, whatever its outcome; the run is halted after the fetch
\* only when no instrument has data, and then the account is untouched; an
\* instrument without data or without a usable row leaves the account alone;
\* and the trading loop goes on to the next instrument until all are done.
C7_Step ==
    /\ (pc = "fetch" /\ pc' = "fetch") => idx' = idx + 1
    /\ (pc = "fetch" /\ pc' # "fetch") =>
          /\ pc' = "fetched"
          /\ idx = Len(tickers) \/ (idx = 1 /\ data' = {})
    /\ pc = "fetch" => UNCHANGED acctVars
    /\ pc = "fetched" =>
          /\ UNCHANGED acctVars
          /\ pc' = IF data = {} THEN "idle" ELSE "simulate"
          /\ data # {} => idx' = 1
    /\ (InSim /\ Cur \notin data) => UNCHANGED acctVars
    /\ SimEmpty => UNCHANGED acctVars
    /\ InSim => (pc' = "simulate" /\ idx' = idx + 1)
    /\ (pc = "simulate" /\ pc' # "simulate") => idx = Len(tickers) + 1

C7_FailuresIsolated == [][C7_Step]_vars

\* the first instrument of the list had no data, a later one was bought in
\* the same run
C7_Witness ==
    /\ pc = "simulate"
    /\ idx > Len(tickers)
    /\ tickers[1] \notin data
    /\ \E i \in 2..Len(tickers) :
          /\ open_positions[tickers[i]] # NoPos
          /\ open_positions[tickers[i]].Buy_Time = now

\* the fallback of an estimator: the last close at every horizon
LastCloseAtEveryHorizon(res, df) ==
    /\ ~IsRaised(res)
    /\ \A h \in HORIZONS : res.preds[h] = df.last_close

FitFails(which) ==
    /\ f_in.lib[which].fit = "raise"
    /\ IF which = "prophet"
       THEN f_in.df.len >= 48
       ELSE f_in.df.len >= 100 /\ UsableRows(f_in.df) >= 50

\* C8: when fitting or predicting fails in one estimator, that estimator
\* gives the last close at every horizon, classify_signal still returns, and
\* its predictions blend that fallback with the other estimator's result.
C8_FitFailureDegrades ==
    f_pc = "done" =>
        /\ FitFails("prophet") =>
              /\ LastCloseAtEveryHorizon(f_out.prophet, f_in.df)
              /\ f_out.prophet.acc = R(0)
              /\ ~IsRaised(f_out.cls)
        /\ FitFails("xgb") =>
              /\ LastCloseAtEveryHorizon(f_out.xgb, f_in.df)
              /\ ~IsRaised(f_out.cls)
        /\ (FitFails("prophet") /\ ~FitFails("xgb")) =>
              f_out.cls.Prediction_8h =
                  Dollar(RDiv(RAdd(f_in.df.last_close, f_out.xgb.preds[8]), R(2)))

\* C9: on a frame below an estimator's minimum (statistical: fewer than 48
\* rows; tree-based: fewer than 100 rows or fewer than 50 usable rows) the
\* estimator does not raise and gives the last close at every horizon (on a
\* frame without rows there is no last close: there it only must not raise),
\* the statistical one with accuracy 0.
C9_ShortSeriesFallback ==
    f_pc = "done" =>
        /\ f_in.df.len < 48 =>
              /\ ~IsRaised(f_out.prophet)
              /\ f_out.prophet.acc = R(0)
              /\ f_in.df.len > 0 =>
                    LastCloseAtEveryHorizon(f_out.prophet, f_in.df)
        /\ (f_in.df.len < 100 \/ UsableRows(f_in.df) < 50) =>
              /\ ~IsRaised(f_out.xgb)
              /\ f_in.df.len > 0 =>
                    LastCloseAtEveryHorizon(f_out.xgb, f_in.df)

\* C10: with anchor = mean of the two estimators' 8-hour predictions and
\* vol = the trailing volatility, classify_signal gives, as "$x.xx" texts:
\* Bullish: TP = anchor + 2 vol, SL = anchor - 2 vol; Bearish: TP = anchor -
\* 2 vol, SL = anchor + 2 vol, and a close advice exactly when a position is
\* open; Neutral with a position: "Consider Close", TP = anchor + vol, SL =
\* anchor - vol; Neutral without a position: no TP, no SL, no advice.
C10_RiskLevels ==
    (f_pc = "done" /\ ~IsRaised(f_out.cls)) =>
        LET anchor == RDiv(RAdd(f_out.prophet.preds[8], f_out.xgb.preds[8]), R(2))
            vol == IF f_in.df.len > 1 THEN f_in.df.std ELSE R(1)
            two == RAdd(vol, vol)
            c == f_out.cls
        IN  /\ f_in.df.Signal = 1 =>
                  /\ c.Take_Profit = Dollar(RAdd(anchor, two))
                  /\ c.Stop_Loss = Dollar(RSub(anchor, two))
            /\ f_in.df.Signal = -1 =>
                  /\ c.Take_Profit = Dollar(RSub(anchor, two))
                  /\ c.Stop_Loss = Dollar(RAdd(anchor, two))
                  /\ (c.Close_position # "") <=> f_in.position_open
            /\ (f_in.df.Signal = 0 /\ f_in.position_open) =>
                  /\ c.Close_position = "Consider Close"
                  /\ c.Take_Profit = Dollar(RAdd(anchor, vol))
                  /\ c.Stop_Loss = Dollar(RSub(anchor, vol))
            /\ (f_in.df.Signal = 0 /\ ~f_in.position_open) =>
                  /\ c.Take_Profit = NoLevel
                  /\ c.Stop_Loss = NoLevel
                  /\ c.Close_position = ""

\* Neutral with an open position, both estimators fitted (anchor 98.125),
\* volatility 1.5: the band is 99.62 / 96.62
C10_Witness ==
    /\ f_pc = "done"
    /\ ~IsRaised(f_out.cls)
    /\ f_in.df.Signal = 0
    /\ f_in.position_open
    /\ f_out.prophet.preds[8] # f_out.xgb.preds[8]
    /\ f_out.cls.Close_position = "Consider Close"
    /\ f_out.cls.Take_Profit = <<"$", 9962>>
    /\ f_out.cls.Stop_Loss = <<"$", 9662>>


\* C11: on every bar from the second on RSI is a number in [0, 100]; on
\* every bar where the smoothed average loss is zero, whether or not the
\* smoothed average gain is zero too, RSI is 100 and the bar is in the
\* indicator frame once the rolling windows are filled.
C11_ZeroLossIs100 ==
    ind # NoCall =>
        LET al == avg_loss(series, RSI_PERIOD)
        IN  \A i \in 2..Len(series) :
                /\ ind.RSI[i].k = "num"
                /\ RGeq(ind.RSI[i].v, R(0))
                /\ RGeq(R(100), ind.RSI[i].v)
                /\ al[i] = Num(R(0)) =>
                      /\ ind.RSI[i] = Num(R(100))
                      /\ i >= LONG_WINDOW => i \in ind.index

\* C12: the balance is never negative.
C12_BalanceNeverNegative == RGeq(balance, R(0))

\* C13: an iteration on an instrument that was already evaluated on the same
\* latest bar (same close, same Signal) changes no position, leaves the
\* balance as it is and appends nothing to the trade history or the balance
\* history.
C13_Step ==
    (Tracking /\ InSim /\ Cur \in data /\ Cur \in DOMAIN bar) =>
        UNCHANGED acctVars

C13_SameBarIdempotent == [][C13_Step]_vars

====
